---------------------------- MODULE Spec2Model ----------------------------
(***************************************************************************)
(* Smarter Dog grooming salon: calendar resolution, the capacity ledger    *)
(* CURRENT_BOOKINGS guarded by BOOKINGS_LOCK, and the two tools            *)
(* get_available_slots and book_grooming_appointment                       *)
(* (smarter_dog_refactored.py), called by concurrent threads.              *)
(*                                                                         *)
(* Representation.                                                         *)
(*   - a datetime.date object is a record [year, month, day];              *)
(*   - an ISO date string "YYYY-MM-DD" is the sequence <<YYYY, MM, DD>> of *)
(*     its three numeric fields (so "2024-02-30" is <<2024, 2, 30>>, a     *)
(*     string that does not parse);                                        *)
(*   - a slot time is the string itself, "09:00";                          *)
(*   - a note (an f-string of the code) is a record holding the note's     *)
(*     kind and the values formatted into it;                              *)
(*   - a raised ValueError is a record [exc |-> kind, ...].                *)
(***************************************************************************)
EXTENDS Integers, Sequences, FiniteSets, TLC

(***************************************************************************)
(* Bounds of the model.                                                    *)
(***************************************************************************)
\* Threads calling the tools concurrently under Spec.
NumThreads == 2
\* Requests the callers make in one behaviour of Spec. A request is one tool call,
\* or the workflow of the agent's instructions: an availability query and then the
\* commit for a slot the response lists.
\* Calls of _resolve_operating_day in SpecCache.
MaxResolves == 3

MaxCalls == 2
\* Callers racing for one (date, slot) key under SpecRace.
RaceCallers == 3
\* Requested dates of SpecCal range over the years LastYear-NumYears+1 .. LastYear.
LastYear == 2025
NumYears == 8

(***************************************************************************)
(* Constants of the program.                                               *)
(***************************************************************************)
SLOT_TIMES ==
    << "08:30", "09:00", "09:30", "10:00", "10:30",
       "11:00", "11:30", "12:00", "12:30", "13:00" >>

OPEN_WEEKDAYS == {0, 1, 2}

CAPACITY_UNITS == 2

DogSizes == {"small", "medium", "large"}

\* Mutant of the unit costs: a large dog costs one unit.
DOG_SIZE_UNITS_LargeIsOne == [s \in DogSizes |-> 1]

DOG_SIZE_UNITS == [s \in DogSizes |-> IF s = "large" THEN 2 ELSE 1]

\* x in a tuple: Python's `x in SLOT_TIMES`.
InSeq(x, s) == \E i \in 1..Len(s) : s[i] = x

(***************************************************************************)
(* datetime.date: the proleptic Gregorian calendar as CPython computes it. *)
(***************************************************************************)
IsLeap(y) == (y % 4 = 0) /\ ((y % 100 # 0) \/ (y % 400 = 0))

DaysInMonth(y, m) ==
    CASE m \in {1, 3, 5, 7, 8, 10, 12} -> 31
      [] m \in {4, 6, 9, 11}           -> 30
      [] OTHER                         -> IF IsLeap(y) THEN 29 ELSE 28

DaysInYear(y) == IF IsLeap(y) THEN 366 ELSE 365

RECURSIVE DaysBeforeMonth(_, _)
DaysBeforeMonth(y, m) ==
    IF m = 1 THEN 0 ELSE DaysBeforeMonth(y, m - 1) + DaysInMonth(y, m - 1)

DaysBeforeYear(y) ==
    (y - 1) * 365 + ((y - 1) \div 4) - ((y - 1) \div 100) + ((y - 1) \div 400)

\* date.toordinal(): January 1 of year 1 is day 1.
ToOrdinal(d) == DaysBeforeYear(d.year) + DaysBeforeMonth(d.year, d.month) + d.day

\* The year holding ordinal n, searched from a first guess that is never too late.
RECURSIVE YearOfOrdinal(_, _)
YearOfOrdinal(n, y) ==
    IF n <= DaysBeforeYear(y) + DaysInYear(y) THEN y ELSE YearOfOrdinal(n, y + 1)

RECURSIVE MonthOfYearDay(_, _, _)
MonthOfYearDay(y, k, m) ==
    IF k <= DaysBeforeMonth(y, m) + DaysInMonth(y, m) THEN m
    ELSE MonthOfYearDay(y, k, m + 1)

\* date.fromordinal(n).
FromOrdinal(n) ==
    LET y == YearOfOrdinal(n, ((n - 1) \div 366) + 1)
        k == n - DaysBeforeYear(y)
        m == MonthOfYearDay(y, k, 1)
    IN  [year |-> y, month |-> m, day |-> k - DaysBeforeMonth(y, m)]

\* date(y, m, d)
MkDate(y, m, d) == [year |-> y, month |-> m, day |-> d]

\* day + timedelta(days=n)
AddDays(d, n) == FromOrdinal(ToOrdinal(d) + n)

\* date.weekday(): Monday is 0, Sunday is 6.
Weekday(d) == (ToOrdinal(d) + 6) % 7

\* day <= other
DateLE(a, b) == ToOrdinal(a) <= ToOrdinal(b)

\* date.isoformat(): the fields of "YYYY-MM-DD".
IsoFormat(d) == << d.year, d.month, d.day >>

\* Whether datetime.fromisoformat accepts the string.
IsoParses(s) ==
    /\ Len(s) = 3
    /\ s[1] \in 1..9999
    /\ s[2] \in 1..12
    /\ s[3] \in 1..DaysInMonth(s[1], s[2])

\* _parse_date on a string that parses.
parse_date(s) == MkDate(s[1], s[2], s[3])


(***************************************************************************)
(* Calendar resolver.                                                      *)
(***************************************************************************)
WeekdayName(w) ==
    << "Monday", "Tuesday", "Wednesday", "Thursday",
       "Friday", "Saturday", "Sunday" >>[w + 1]

\* The notes the code formats.
ShiftNote(day, new_day) ==
    [kind |-> "bank_holiday_moved", day |-> IsoFormat(day), arg |-> IsoFormat(new_day)]
WeekdayClosedNote(day) ==
    [kind |-> "salon_closed_weekday", day |-> IsoFormat(day), arg |-> WeekdayName(Weekday(day))]
ShutdownNote(day) ==
    [kind |-> "christmas_shutdown", day |-> IsoFormat(day), arg |-> ""]
OutsideNote(day) ==
    [kind |-> "outside_operating_days", day |-> IsoFormat(day), arg |-> ""]

\* candidate -= timedelta(days=1) until candidate.weekday() = weekday
RECURSIVE WalkBack(_, _)
WalkBack(candidate, weekday) ==
    IF Weekday(candidate) = weekday THEN candidate
    ELSE WalkBack(AddDays(candidate, -1), weekday)

last_weekday_of_month(year, month, weekday) ==
    WalkBack(MkDate(year, month, DaysInMonth(year, month)), weekday)

\* The body of _bank_holidays_for_year: what a cache miss computes.
ChristmasSubstitutes(christmas) ==
    IF Weekday(christmas) = 5 THEN {AddDays(christmas, 2)}
    ELSE IF Weekday(christmas) = 6 THEN {AddDays(christmas, 1)}
    ELSE {}

ComputeBankHolidays(year) ==
    LET late_may    == last_weekday_of_month(year, 5, 0)
        late_august == last_weekday_of_month(year, 8, 0)
        christmas   == MkDate(year, 12, 25)
    IN  {late_may, late_august, christmas} \cup ChristmasSubstitutes(christmas)

\* @lru_cache(maxsize=None): cache maps the years computed so far to their sets.
bank_holidays_for_year(cache, year) ==
    IF year \in DOMAIN cache THEN cache[year] ELSE ComputeBankHolidays(year)

CacheAfterLookup(cache, year) ==
    IF year \in DOMAIN cache THEN cache
    ELSE [y \in DOMAIN cache \cup {year} |->
            IF y = year THEN ComputeBankHolidays(year) ELSE cache[y]]

is_bank_holiday(cache, day) == day \in bank_holidays_for_year(cache, day.year)

\* first_monday += timedelta(days=1) until first_monday.weekday() = 0
RECURSIVE WalkForward(_, _)
WalkForward(candidate, weekday) ==
    IF Weekday(candidate) = weekday THEN candidate
    ELSE WalkForward(AddDays(candidate, 1), weekday)

\* Mutant of the shutdown test: December 24-26 are not tested.
is_christmas_shutdown_NoFixedDays(day) ==
    LET dec26 == MkDate(day.year, 12, 26) IN
    IF DateLE(day, dec26) THEN FALSE
    ELSE LET first_monday == WalkForward(AddDays(dec26, 1), 0)
         IN  day \in {AddDays(first_monday, i) : i \in 0..2}

is_christmas_shutdown(day) ==
    IF day.month = 12 /\ day.day \in {24, 25, 26} THEN TRUE
    ELSE LET dec26 == MkDate(day.year, 12, 26) IN
         IF DateLE(day, dec26) THEN FALSE
         ELSE LET first_monday == WalkForward(AddDays(dec26, 1), 0)
                  shutdown_window == {AddDays(first_monday, i) : i \in 0..2}
              IN  day \in shutdown_window

\* Mutant of the shift: three days later, whatever the weekday.
shift_bank_holiday_ThreeDays(cache, day) ==
    IF Weekday(day) \in OPEN_WEEKDAYS /\ is_bank_holiday(cache, day)
    THEN LET new_day == AddDays(day, 3)
         IN  [day |-> new_day, notes |-> << ShiftNote(day, new_day) >>, force_open |-> TRUE]
    ELSE [day |-> day, notes |-> << >>, force_open |-> FALSE]

\* Returns (day, notes, force_open).
shift_bank_holiday(cache, day) ==
    IF Weekday(day) \in OPEN_WEEKDAYS /\ is_bank_holiday(cache, day)
    THEN LET new_day == AddDays(day, 3 - Weekday(day))
         IN  [day |-> new_day, notes |-> << ShiftNote(day, new_day) >>, force_open |-> TRUE]
    ELSE [day |-> day, notes |-> << >>, force_open |-> FALSE]

\* Returns the closure notes (the day is returned unchanged).
ensure_operating_day(day, force_open) ==
    IF force_open /\ Weekday(day) = 3 /\ ~is_christmas_shutdown(day) THEN << >>
    ELSE IF Weekday(day) \notin OPEN_WEEKDAYS THEN << WeekdayClosedNote(day) >>
    ELSE IF is_christmas_shutdown(day) THEN << ShutdownNote(day) >>
    ELSE << >>

\* _resolve_operating_day on a date that parsed: (operating_day, notes, is_open).
resolve_operating_day(cache, requested) ==
    LET shifted       == shift_bank_holiday(cache, requested)
        closure_notes == ensure_operating_day(shifted.day, shifted.force_open)
    IN  [operating_day |-> shifted.day,
         notes         |-> shifted.notes \o closure_notes,
         is_open       |-> /\ closure_notes = << >>
                           /\ (shifted.force_open \/ Weekday(shifted.day) \in OPEN_WEEKDAYS)]

\* The holiday cache after resolving: the lookup happens only behind the weekday test.
CacheAfterResolve(cache, requested) ==
    IF Weekday(requested) \in OPEN_WEEKDAYS THEN CacheAfterLookup(cache, requested.year)
    ELSE cache


(***************************************************************************)
(* State.                                                                  *)
(***************************************************************************)
VARIABLES
    CURRENT_BOOKINGS,   \* the ledger: day key -> (slot -> units used), both dicts
    BOOKINGS_LOCK,      \* the RLock: [owner, count]
    holidayCache,       \* lru_cache of _bank_holidays_for_year: year -> set of dates
    pc,                 \* thread -> where it is in the tool it runs
    frame,              \* thread -> the locals of the tool call it runs
    ret,                \* thread -> what its last finished call returned or raised
    calls,              \* requests started so far
    bookedLog           \* history: how many bookings succeeded, per key and dog size

vars == << CURRENT_BOOKINGS, BOOKINGS_LOCK, holidayCache, pc, frame, ret, calls, bookedLog >>

NoThread == 0
Threads == 1..NumThreads
RaceThreads == 1..RaceCallers

NoFrame == [op |-> "none"]
NoRet   == [op |-> "none", outcome |-> "none"]

\* CURRENT_BOOKINGS as the module is loaded.
SeedBookings ==
    (<< 2024, 7, 10 >> :> ("09:00" :> 2)) @@ (<< 2024, 7, 17 >> :> ("10:30" :> 1))

UnlockedLock == [owner |-> NoThread, count |-> 0]

\* CURRENT_BOOKINGS.get(day_key, {}).get(slot, 0)
UnitsUsed(bookings, day_key, slot) ==
    IF day_key \in DOMAIN bookings
    THEN (IF slot \in DOMAIN bookings[day_key] THEN bookings[day_key][slot] ELSE 0)
    ELSE 0

\* Mutant of setdefault: the day's dict is always replaced by an empty one.
SetDefaultDay_Overwrites(bookings, day_key) ==
    [k \in DOMAIN bookings \cup {day_key} |->
        IF k = day_key THEN << >> ELSE bookings[k]]

\* CURRENT_BOOKINGS.setdefault(day_key, {})
SetDefaultDay(bookings, day_key) ==
    IF day_key \in DOMAIN bookings THEN bookings
    ELSE [k \in DOMAIN bookings \cup {day_key} |->
            IF k = day_key THEN << >> ELSE bookings[k]]

\* ledger[requested_time] = value, ledger being CURRENT_BOOKINGS[day_key]
StoreUnits(bookings, day_key, slot, value) ==
    [bookings EXCEPT ![day_key] =
        [s \in DOMAIN bookings[day_key] \cup {slot} |->
            IF s = slot THEN value ELSE bookings[day_key][s]]]

\* Mutant of the lock: acquire never waits.
LockAvailable_NoWait(lock, t) == TRUE

\* Mutant of the lock: two threads may be inside at a time.
LockAvailable_TwoInside(lock, t) == lock.count < 2

\* RLock.acquire() can return for thread t
LockAvailable(lock, t) == lock.owner \in {NoThread, t}

AcquiredLock(lock, t) == [owner |-> t, count |-> lock.count + 1]

ReleasedLock(lock) ==
    IF lock.count = 1 THEN UnlockedLock ELSE [lock EXCEPT !.count = lock.count - 1]

(***************************************************************************)
(* Entering a tool: the arguments are bound and _resolve_operating_day     *)
(* runs (it reads no shared state but the holiday cache).                  *)
(***************************************************************************)
\* History: the number of bookings that have succeeded.
RECURSIVE SumOver(_, _)
SumOver(f, keys) ==
    IF keys = {} THEN 0
    ELSE LET k == CHOOSE x \in keys : TRUE
         IN  f[k] + SumOver(f, keys \ {k})

CommitCount(log) == SumOver(log, DOMAIN log)

LogKey(day_key, time, dog_size) ==
    [day_key |-> day_key, time |-> time, dog_size |-> dog_size]

Logged(log, k) == IF k \in DOMAIN log THEN log[k] ELSE 0

LogAppend(log, k) ==
    [x \in DOMAIN log \cup {k} |-> IF x = k THEN Logged(log, k) + 1 ELSE log[x]]

\* History: whether a commit follows an availability response, held by the same
\* caller, that lists the requested time for the same date and dog size; and the
\* number of commits when that query started and when it returned.
NoQuery == [is |-> FALSE, started_at |-> 0, returned_at |-> 0]

AfterQuery(prev, op, requested_date, dog_size, requested_time) ==
    IF /\ op = "book"
       /\ prev.op = "query"
       /\ prev.outcome = "ok"
       /\ prev.requested_date = requested_date
       /\ prev.dog_size = dog_size
       /\ InSeq(requested_time, prev.value.available_slots)
    THEN [is |-> TRUE, started_at |-> prev.started_at, returned_at |-> prev.returned_at]
    ELSE NoQuery

EnteredFrame(cache, op, requested_date, dog_size, requested_time, log, prev) ==
    LET r == resolve_operating_day(cache, parse_date(requested_date))
    IN  [op             |-> op,
         requested_date |-> requested_date,
         dog_size       |-> dog_size,
         requested_time |-> requested_time,
         operating_day  |-> r.operating_day,
         notes          |-> r.notes,
         is_open        |-> r.is_open,
         used           |-> 0,
         idx            |-> 1,
         available      |-> << >>,
         started_at     |-> CommitCount(log),
         after_query    |-> AfterQuery(prev, op, requested_date, dog_size, requested_time)]

Raised(op, requested_date, dog_size, requested_time, kind, detail, started, log) ==
    [op |-> op, requested_date |-> requested_date, dog_size |-> dog_size,
     requested_time |-> requested_time, outcome |-> kind, value |-> detail,
     started_at |-> started, returned_at |-> CommitCount(log), listed |-> FALSE]

Returned(f, value, log) ==
    [op |-> f.op, requested_date |-> f.requested_date, dog_size |-> f.dog_size,
     requested_time |-> f.requested_time, outcome |-> "ok", value |-> value,
     started_at |-> f.started_at, returned_at |-> CommitCount(log),
     listed |-> f.after_query.is]

RaisedFrom(f, kind, detail, log) ==
    [Raised(f.op, f.requested_date, f.dog_size, f.requested_time, kind, detail,
            f.started_at, log) EXCEPT !.listed = f.after_query.is]

\* Thread t calls tool op: lines 242 and 297, through _parse_date.
Enter(t, op, requested_date, dog_size, requested_time) ==
    /\ pc[t] = "idle"
    /\ IF IsoParses(requested_date)
       THEN /\ frame' = [frame EXCEPT ![t] =
                    EnteredFrame(holidayCache, op, requested_date, dog_size,
                                 requested_time, bookedLog, ret[t])]
            /\ pc' = [pc EXCEPT ![t] = IF op = "book" THEN "b_checks" ELSE "q_checks"]
            /\ holidayCache' = CacheAfterResolve(holidayCache, parse_date(requested_date))
            /\ ret' = [ret EXCEPT ![t] = NoRet]
       ELSE /\ ret' = [ret EXCEPT ![t] =
                    Raised(op, requested_date, dog_size, requested_time,
                           "MalformedDate", << >>, CommitCount(bookedLog), bookedLog)]
            /\ UNCHANGED << frame, pc, holidayCache >>
    /\ UNCHANGED << CURRENT_BOOKINGS, BOOKINGS_LOCK, bookedLog >>
    \* (the request counter is set by the action that calls the tool)


(***************************************************************************)
(* book_grooming_appointment.                                              *)
(***************************************************************************)
\* Mutant of the checks: the time is tested before the day.
BookGate_TimeFirst(is_open, requested_time) ==
    IF ~InSeq(requested_time, SLOT_TIMES) THEN "InvalidTime"
    ELSE IF ~is_open THEN "ClosedDay"
    ELSE "pass"

\* Mutant of the checks: a closed day passes.
BookGate_OpensClosedDay(is_open, requested_time) ==
    IF ~InSeq(requested_time, SLOT_TIMES) THEN "InvalidTime" ELSE "pass"

\* Lines 298-301: the checks before the ledger is touched, in the code's order.
BookGate(is_open, requested_time) ==
    IF ~is_open THEN "ClosedDay"
    ELSE IF ~InSeq(requested_time, SLOT_TIMES) THEN "InvalidTime"
    ELSE "pass"

\* Mutants of the capacity test: the units of the dog left out; >= for >.
SlotIsFull_IgnoresUnits(used, units_needed) == used > CAPACITY_UNITS
SlotIsFull_OffByOne(used, units_needed) == used + units_needed >= CAPACITY_UNITS

\* Line 308: the capacity test of the commit.
SlotIsFull(used, units_needed) == used + units_needed > CAPACITY_UNITS

\* Mutant of the ledger update: the store is done before the test.
LedgerAfterReserve_StoreFirst(bookings, day_key, slot, used, units_needed) ==
    StoreUnits(bookings, day_key, slot, used + units_needed)

\* Lines 308-310: the ledger when the with block is left.
LedgerAfterReserve(bookings, day_key, slot, used, units_needed) ==
    IF SlotIsFull(used, units_needed) THEN bookings
    ELSE StoreUnits(bookings, day_key, slot, used + units_needed)

\* Mutant of the record: the requested date in place of the operating date.
BookingRecord_RequestedDate(f) ==
    [dog_size |-> f.dog_size,
     date     |-> f.requested_date,
     time     |-> f.requested_time,
     status   |-> "Booked",
     notes    |-> f.notes]

\* Mutant of leaving the with block: the raise skips the release.
LockAfterReserve_HeldOnRaise(lock, full) ==
    IF full THEN lock ELSE ReleasedLock(lock)

\* Lines 305-310: the with block releases the lock when it is left, by the
\* raise of line 309 as well as by falling off its end.
LockAfterReserve(lock, full) == ReleasedLock(lock)

\* The dict the tool returns (the caller's dog_name, customer_name and
\* contact_number are copied into it unchanged and are left out here).
BookingRecord(f) ==
    [dog_size |-> f.dog_size,
     date     |-> IsoFormat(f.operating_day),
     time     |-> f.requested_time,
     status   |-> "Booked",
     notes    |-> f.notes]

BookChecks(t) ==
    /\ pc[t] = "b_checks"
    /\ LET f    == frame[t]
           gate == BookGate(f.is_open, f.requested_time)
       IN  IF gate = "pass"
           THEN /\ pc' = [pc EXCEPT ![t] = "b_acquire"]
                /\ UNCHANGED << frame, ret >>
           ELSE /\ pc' = [pc EXCEPT ![t] = "idle"]
                /\ frame' = [frame EXCEPT ![t] = NoFrame]
                /\ ret' = [ret EXCEPT ![t] =
                        RaisedFrom(f, gate,
                                   IF gate = "ClosedDay" THEN IsoFormat(f.operating_day)
                                   ELSE << >>,
                                   bookedLog)]
    /\ UNCHANGED << CURRENT_BOOKINGS, BOOKINGS_LOCK, holidayCache, calls, bookedLog >>

\* Line 305: with BOOKINGS_LOCK, entered.
BookAcquire(t) ==
    /\ pc[t] = "b_acquire"
    /\ LockAvailable(BOOKINGS_LOCK, t)
    /\ BOOKINGS_LOCK' = AcquiredLock(BOOKINGS_LOCK, t)
    /\ pc' = [pc EXCEPT ![t] = "b_read"]
    /\ UNCHANGED << CURRENT_BOOKINGS, holidayCache, frame, ret, calls, bookedLog >>

\* Lines 306-307: ledger = setdefault(day_key, {}); used = ledger.get(time, 0).
BookRead(t) ==
    /\ pc[t] = "b_read"
    /\ LET f       == frame[t]
           day_key == IsoFormat(f.operating_day)
           ledger  == SetDefaultDay(CURRENT_BOOKINGS, day_key)
       IN  /\ CURRENT_BOOKINGS' = ledger
           /\ frame' = [frame EXCEPT ![t].used =
                            UnitsUsed(ledger, day_key, f.requested_time)]
    /\ pc' = [pc EXCEPT ![t] = "b_reserve"]
    /\ UNCHANGED << BOOKINGS_LOCK, holidayCache, ret, calls, bookedLog >>

\* Lines 308-320: the test, then either the raise or the store; leaving the with
\* block releases the lock on both paths, and the call returns or raises.
BookReserve(t) ==
    /\ pc[t] = "b_reserve"
    /\ LET f            == frame[t]
           day_key      == IsoFormat(f.operating_day)
           units_needed == DOG_SIZE_UNITS[f.dog_size]
       IN  /\ CURRENT_BOOKINGS' =
                  LedgerAfterReserve(CURRENT_BOOKINGS, day_key, f.requested_time,
                                     f.used, units_needed)
           /\ IF SlotIsFull(f.used, units_needed)
              THEN /\ ret' = [ret EXCEPT ![t] = RaisedFrom(f, "SlotFull", << >>, bookedLog)]
                   /\ UNCHANGED bookedLog
              ELSE /\ bookedLog' = LogAppend(bookedLog,
                          LogKey(day_key, f.requested_time, f.dog_size))
                   /\ ret' = [ret EXCEPT ![t] = Returned(f, BookingRecord(f), bookedLog')]
    /\ BOOKINGS_LOCK' =
          LockAfterReserve(BOOKINGS_LOCK,
                           SlotIsFull(frame[t].used, DOG_SIZE_UNITS[frame[t].dog_size]))
    /\ pc' = [pc EXCEPT ![t] = "idle"]
    /\ frame' = [frame EXCEPT ![t] = NoFrame]
    /\ UNCHANGED << holidayCache, calls >>

(***************************************************************************)
(* get_available_slots.                                                    *)
(***************************************************************************)
\* Mutant of the availability test: the units of the dog left out.
HasCapacity_IgnoresUnits(used, units_needed) == used < CAPACITY_UNITS

\* Mutant of the availability test: < for <=.
HasCapacity_Strict(used, units_needed) == used + units_needed < CAPACITY_UNITS

\* Line 212: the capacity test of _slot_has_capacity.
HasCapacity(used, units_needed) == used + units_needed <= CAPACITY_UNITS

\* Mutant of the slot read: the query holds the units it found room for.
LedgerAfterSlotRead_Holds(bookings, day_key, slot, used, units_needed) ==
    IF HasCapacity(used, units_needed)
    THEN StoreUnits(SetDefaultDay(bookings, day_key), day_key, slot, used + units_needed)
    ELSE bookings

\* Line 211: CURRENT_BOOKINGS.get(day_key, {}).get(slot, 0) inserts nothing.
LedgerAfterSlotRead(bookings, day_key, slot, used, units_needed) == bookings

AvailabilityResponse(f, available, notes) ==
    [requested_date  |-> f.requested_date,
     operating_date  |-> IsoFormat(f.operating_day),
     available_slots |-> available,
     notes           |-> notes]

\* Lines 243-250.
QueryChecks(t) ==
    /\ pc[t] = "q_checks"
    /\ LET f == frame[t]
       IN  IF ~f.is_open
           THEN /\ pc' = [pc EXCEPT ![t] = "idle"]
                /\ frame' = [frame EXCEPT ![t] = NoFrame]
                /\ ret' = [ret EXCEPT ![t] =
                        Returned(f,
                            AvailabilityResponse(f, << >>,
                                IF f.notes # << >> THEN f.notes
                                ELSE << OutsideNote(f.operating_day) >>),
                            bookedLog)]
           ELSE /\ pc' = [pc EXCEPT ![t] = "q_slots"]
                /\ UNCHANGED << frame, ret >>
    /\ UNCHANGED << CURRENT_BOOKINGS, BOOKINGS_LOCK, holidayCache, calls, bookedLog >>

\* Lines 253-261: one turn of the comprehension, a call of _slot_has_capacity
\* (lines 209-212: the read happens with the lock held, which is released at
\* once); after the last slot the response is returned.
QuerySlot(t) ==
    /\ pc[t] = "q_slots"
    /\ LockAvailable(BOOKINGS_LOCK, t)
    /\ LET f            == frame[t]
           slot         == SLOT_TIMES[f.idx]
           units_needed == DOG_SIZE_UNITS[f.dog_size]
           used         == UnitsUsed(CURRENT_BOOKINGS, IsoFormat(f.operating_day), slot)
           available    == IF HasCapacity(used, units_needed)
                           THEN Append(f.available, slot) ELSE f.available
       IN  /\ CURRENT_BOOKINGS' =
                  LedgerAfterSlotRead(CURRENT_BOOKINGS, IsoFormat(f.operating_day),
                                      slot, used, units_needed)
           /\ IF f.idx < Len(SLOT_TIMES)
              THEN /\ frame' = [frame EXCEPT ![t].idx = f.idx + 1,
                                             ![t].available = available]
                   /\ UNCHANGED << pc, ret >>
              ELSE /\ pc' = [pc EXCEPT ![t] = "idle"]
                   /\ frame' = [frame EXCEPT ![t] = NoFrame]
                   /\ ret' = [ret EXCEPT ![t] =
                           Returned(f, AvailabilityResponse(f, available, f.notes),
                                    bookedLog)]
    /\ UNCHANGED << BOOKINGS_LOCK, holidayCache, calls, bookedLog >>

(***************************************************************************)
(* Specifications.                                                         *)
(***************************************************************************)
\* The requested dates of Spec: the two seeded Wednesdays, the Spring bank
\* holiday Monday of 2024, a Thursday, and a string that is no calendar date.
RequestedDates ==
    { << 2024, 7, 10 >>, << 2024, 7, 17 >>, << 2024, 5, 27 >>,
      << 2024, 7, 11 >>, << 2024, 2, 30 >> }

\* The requested times of Spec: two slots and a time between slots.
RequestedTimes == { "09:00", "10:30", "09:15" }

\* A caller starts a request with a commit.
CallBook(t) ==
    /\ calls < MaxCalls
    /\ calls' = calls + 1
    /\ \E d \in RequestedDates, z \in DogSizes, h \in RequestedTimes :
          Enter(t, "book", d, z, h)

\* A caller starts a request with an availability query.
CallQuery(t) ==
    /\ calls < MaxCalls
    /\ calls' = calls + 1
    /\ \E d \in RequestedDates, z \in DogSizes :
          Enter(t, "query", d, z, "")

\* The caller that holds an availability response commits for a slot it lists,
\* with the date and the dog size it asked about (step 2 of the workflow in the
\* agent's instructions, lines 383-389).
BookListed(t) ==
    /\ ret[t].op = "query"
    /\ ret[t].outcome = "ok"
    /\ calls' = calls
    /\ \E h \in RequestedTimes :
          /\ InSeq(h, ret[t].value.available_slots)
          /\ Enter(t, "book", ret[t].requested_date, ret[t].dog_size, h)

Init ==
    /\ CURRENT_BOOKINGS = SeedBookings
    /\ BOOKINGS_LOCK = UnlockedLock
    /\ holidayCache = << >>
    /\ pc = [t \in Threads |-> "idle"]
    /\ frame = [t \in Threads |-> NoFrame]
    /\ ret = [t \in Threads |-> NoRet]
    /\ calls = 0
    /\ bookedLog = << >>

Next ==
    \/ \E t \in DOMAIN pc : CallBook(t)
    \/ \E t \in DOMAIN pc : CallQuery(t)
    \/ \E t \in DOMAIN pc : BookListed(t)
    \/ \E t \in DOMAIN pc : BookChecks(t)
    \/ \E t \in DOMAIN pc : BookAcquire(t)
    \/ \E t \in DOMAIN pc : BookRead(t)
    \/ \E t \in DOMAIN pc : BookReserve(t)
    \/ \E t \in DOMAIN pc : QueryChecks(t)
    \/ \E t \in DOMAIN pc : QuerySlot(t)

Spec == Init /\ [][Next]_vars


(***************************************************************************)
(* SpecLive: Spec under fair scheduling: a thread that can take the next   *)
(* step of the tool it runs (for the steps that take the lock: whenever    *)
(* the lock stays free for it) eventually takes one. Starting a call is    *)
(* the caller's choice and is not forced.                                  *)
(***************************************************************************)
ThreadStep(t) ==
    \/ BookChecks(t)
    \/ BookAcquire(t)
    \/ BookRead(t)
    \/ BookReserve(t)
    \/ QueryChecks(t)
    \/ QuerySlot(t)

SpecLive == Init /\ [][Next]_vars /\ \A t \in Threads : WF_vars(ThreadStep(t))

(***************************************************************************)
(* SpecCal: one caller, one request, for any date string of the years      *)
(* LastYear-NumYears+1 .. LastYear (strings such as "2024-02-30" included).*)
(***************************************************************************)
Years == (LastYear - NumYears + 1)..LastYear

CalDates == { << y, m, d >> : y \in Years, m \in 1..12, d \in 1..31 }

CalBook(t) ==
    /\ calls < MaxCalls
    /\ calls' = calls + 1
    /\ \E d \in CalDates, z \in DogSizes, h \in RequestedTimes :
          Enter(t, "book", d, z, h)

CalQuery(t) ==
    /\ calls < MaxCalls
    /\ calls' = calls + 1
    /\ \E d \in CalDates, z \in DogSizes :
          Enter(t, "query", d, z, "")

InitCal ==
    /\ CURRENT_BOOKINGS = SeedBookings
    /\ BOOKINGS_LOCK = UnlockedLock
    /\ holidayCache = << >>
    /\ pc = [t \in {1} |-> "idle"]
    /\ frame = [t \in {1} |-> NoFrame]
    /\ ret = [t \in {1} |-> NoRet]
    /\ calls = MaxCalls - 1
    /\ bookedLog = << >>

NextCal ==
    \/ \E t \in DOMAIN pc : CalBook(t)
    \/ \E t \in DOMAIN pc : CalQuery(t)
    \/ \E t \in DOMAIN pc : BookListed(t)
    \/ \E t \in DOMAIN pc : BookChecks(t)
    \/ \E t \in DOMAIN pc : BookAcquire(t)
    \/ \E t \in DOMAIN pc : BookRead(t)
    \/ \E t \in DOMAIN pc : BookReserve(t)
    \/ \E t \in DOMAIN pc : QueryChecks(t)
    \/ \E t \in DOMAIN pc : QuerySlot(t)

SpecCal == InitCal /\ [][NextCal]_vars

(***************************************************************************)
(* SpecRace: RaceCallers threads have each called book_grooming_appointment*)
(* for the same requested date and slot, a slot with no units used, each   *)
(* with a one-unit dog; they run the commit in any interleaving.           *)
(***************************************************************************)
RaceDates == { << 2024, 7, 17 >>, << 2024, 5, 27 >> }

RaceTimes == { "09:00", "13:00" }

OneUnitSizes == { z \in DogSizes : DOG_SIZE_UNITS[z] = 1 }

InitRace ==
    /\ CURRENT_BOOKINGS = SeedBookings
    /\ BOOKINGS_LOCK = UnlockedLock
    /\ \E d \in RaceDates, h \in RaceTimes :
          /\ holidayCache = CacheAfterResolve(<< >>, parse_date(d))
          /\ \E z \in [RaceThreads -> OneUnitSizes] :
                frame = [t \in RaceThreads |->
                            EnteredFrame(<< >>, "book", d, z[t], h, << >>, NoRet)]
    /\ pc = [t \in RaceThreads |-> "b_checks"]
    /\ ret = [t \in RaceThreads |-> NoRet]
    /\ calls = RaceCallers
    /\ bookedLog = << >>

NextRace ==
    \/ \E t \in DOMAIN pc : BookChecks(t)
    \/ \E t \in DOMAIN pc : BookAcquire(t)
    \/ \E t \in DOMAIN pc : BookRead(t)
    \/ \E t \in DOMAIN pc : BookReserve(t)

SpecRace == InitRace /\ [][NextRace]_vars


(***************************************************************************)
(* SpecMix: as SpecRace, with dogs of any size: RaceCallers threads have   *)
(* each called book_grooming_appointment for the same requested date and   *)
(* slot, a slot with no units used.                                        *)
(***************************************************************************)
InitMix ==
    /\ CURRENT_BOOKINGS = SeedBookings
    /\ BOOKINGS_LOCK = UnlockedLock
    /\ \E d \in RaceDates, h \in RaceTimes :
          /\ holidayCache = CacheAfterResolve(<< >>, parse_date(d))
          /\ \E z \in [RaceThreads -> DogSizes] :
                frame = [t \in RaceThreads |->
                            EnteredFrame(<< >>, "book", d, z[t], h, << >>, NoRet)]
    /\ pc = [t \in RaceThreads |-> "b_checks"]
    /\ ret = [t \in RaceThreads |-> NoRet]
    /\ calls = RaceCallers
    /\ bookedLog = << >>

NextMix ==
    \/ \E t \in DOMAIN pc : BookChecks(t)
    \/ \E t \in DOMAIN pc : BookAcquire(t)
    \/ \E t \in DOMAIN pc : BookRead(t)
    \/ \E t \in DOMAIN pc : BookReserve(t)

SpecMix == InitMix /\ [][NextMix]_vars


(***************************************************************************)

(* SpecCache: _resolve_operating_day alone, with the lookup of the holiday *)
(* cache in the steps the lru_cache wrapper takes: the cache is looked up; *)
(* on a miss the body of _bank_holidays_for_year runs, with other threads  *)
(* free to run meanwhile, and its result is stored under the year and      *)
(* returned. The ledger is any of Ledgers and is never read.               *)
(***************************************************************************)
ResolveDates ==
    { << 2024, 5, 27 >>, << 2023, 5, 29 >>, << 2024, 12, 25 >>,
      << 2024, 7, 10 >>, << 2024, 7, 11 >> }

Ledgers ==
    { SeedBookings, << >>, (<< 2024, 5, 30 >> :> ("09:00" :> 2)) }

\* Mutant of the store: the cached set loses December 25.
CacheAfterStore_DropsChristmas(cache, year, holidays) ==
    [y \in DOMAIN cache \cup {year} |->
        IF y = year THEN holidays \ {MkDate(year, 12, 25)} ELSE cache[y]]

\* The wrapper stores the set it is about to return under the year.
CacheAfterStore(cache, year, holidays) ==
    [y \in DOMAIN cache \cup {year} |-> IF y = year THEN holidays ELSE cache[y]]

ResolveFrame(requested_date, holidays) ==
    [op |-> "resolve", requested_date |-> requested_date, holidays |-> holidays]

\* Line 199, and line 178 up to the call of _is_bank_holiday.
ResolveCall(t) ==
    /\ pc[t] = "idle"
    /\ calls < MaxResolves
    /\ calls' = calls + 1
    /\ \E d \in ResolveDates :
          /\ frame' = [frame EXCEPT ![t] = ResolveFrame(d, {})]
          /\ pc' = [pc EXCEPT ![t] =
                       IF Weekday(parse_date(d)) \in OPEN_WEEKDAYS
                       THEN "r_lookup" ELSE "r_finish"]
    /\ UNCHANGED << CURRENT_BOOKINGS, BOOKINGS_LOCK, holidayCache, ret, bookedLog >>

\* Line 159: the cached call; a hit returns the cached set.
ResolveLookup(t) ==
    /\ pc[t] = "r_lookup"
    /\ LET year == frame[t].requested_date[1]
       IN  IF year \in DOMAIN holidayCache
           THEN /\ frame' = [frame EXCEPT ![t].holidays =
                                 bank_holidays_for_year(holidayCache, year)]
                /\ pc' = [pc EXCEPT ![t] = "r_finish"]
           ELSE /\ pc' = [pc EXCEPT ![t] = "r_compute"]
                /\ UNCHANGED frame
    /\ UNCHANGED << CURRENT_BOOKINGS, BOOKINGS_LOCK, holidayCache, ret, calls, bookedLog >>

\* Lines 143-154: a miss runs the body.
ResolveCompute(t) ==
    /\ pc[t] = "r_compute"
    /\ frame' = [frame EXCEPT ![t].holidays =
                     ComputeBankHolidays(frame[t].requested_date[1])]
    /\ pc' = [pc EXCEPT ![t] = "r_store"]
    /\ UNCHANGED << CURRENT_BOOKINGS, BOOKINGS_LOCK, holidayCache, ret, calls, bookedLog >>

\* Line 140: the wrapper stores the result, over whatever another thread stored.
ResolveStore(t) ==
    /\ pc[t] = "r_store"
    /\ holidayCache' = CacheAfterStore(holidayCache, frame[t].requested_date[1],
                                       frame[t].holidays)
    /\ pc' = [pc EXCEPT ![t] = "r_finish"]
    /\ UNCHANGED << CURRENT_BOOKINGS, BOOKINGS_LOCK, frame, ret, calls, bookedLog >>

\* Lines 178-183 and 200-204, with the set the lookup gave.
ResolveFinish(t) ==
    /\ pc[t] = "r_finish"
    /\ LET d     == frame[t].requested_date
           known == (d[1] :> frame[t].holidays)
       IN  ret' = [ret EXCEPT ![t] =
                      [op |-> "resolve", outcome |-> "ok", requested_date |-> d,
                       value |-> resolve_operating_day(known, parse_date(d))]]
    /\ pc' = [pc EXCEPT ![t] = "idle"]
    /\ frame' = [frame EXCEPT ![t] = NoFrame]
    /\ UNCHANGED << CURRENT_BOOKINGS, BOOKINGS_LOCK, holidayCache, calls, bookedLog >>

InitCache ==
    /\ CURRENT_BOOKINGS \in Ledgers
    /\ BOOKINGS_LOCK = UnlockedLock
    /\ holidayCache = << >>
    /\ pc = [t \in Threads |-> "idle"]
    /\ frame = [t \in Threads |-> NoFrame]
    /\ ret = [t \in Threads |-> NoRet]
    /\ calls = 0
    /\ bookedLog = << >>

NextCache ==
    \/ \E t \in DOMAIN pc : ResolveCall(t)
    \/ \E t \in DOMAIN pc : ResolveLookup(t)
    \/ \E t \in DOMAIN pc : ResolveCompute(t)
    \/ \E t \in DOMAIN pc : ResolveStore(t)
    \/ \E t \in DOMAIN pc : ResolveFinish(t)

SpecCache == InitCache /\ [][NextCache]_vars


(***************************************************************************)

(* SpecRunner: the stub Runner. A caller hands a booking prompt to         *)
(* Runner._handle_booking_request, which queries availability and then     *)
(* books; other callers call book_grooming_appointment directly, at any    *)
(* moment. A prompt is modelled by what _parse_booking_prompt extracts     *)
(* from it: month and day, dog size and time.                              *)
(***************************************************************************)
\* The "Month day" texts of the prompts: two seeded Wednesdays, the bank holiday
\* Monday, a Thursday, and a text strptime rejects ("February 30").
PromptDays == { << 7, 10 >>, << 7, 17 >>, << 5, 27 >>, << 7, 11 >>, << 2, 30 >> }

\* _parse_month_day: the year is 2024; a text that is no date becomes July 10.
parse_month_day(month, day) ==
    IF IsoParses(<< 2024, month, day >>)
    THEN IsoFormat(MkDate(2024, month, day))
    ELSE IsoFormat(MkDate(2024, 7, 10))

\* Mutant of the choice of slot: the requested time, listed or not.
RunnerSlot_AlwaysRequested(requested_time, available_slots) == requested_time

\* Lines 129-134 of the stub: the requested time if it is listed, else the first listed.
RunnerSlot(requested_time, available_slots) ==
    IF InSeq(requested_time, available_slots) THEN requested_time
    ELSE available_slots[1]

\* Lines 115-126: the prompt is parsed and the availability tool is called. The
\* requested time travels with the call until the slot is chosen.
RunnerRequest(t) ==
    /\ calls < MaxCalls
    /\ calls' = calls + 1
    /\ ret[t].op # "query"
    /\ \E md \in PromptDays, z \in DogSizes, h \in RequestedTimes :
          Enter(t, "query", parse_month_day(md[1], md[2]), z, h)

\* Lines 129-144: the slot is chosen and the booking tool is called, or the
\* handler raises RuntimeError when no slot is listed.
RunnerBook(t) ==
    /\ pc[t] = "idle"
    /\ ret[t].op = "query"
    /\ ret[t].outcome = "ok"
    /\ calls' = calls
    /\ LET r == ret[t]
       IN  IF ~InSeq(r.requested_time, r.value.available_slots)
              /\ r.value.available_slots = << >>
           THEN /\ ret' = [ret EXCEPT ![t] =
                           Raised("runner", r.requested_date, r.dog_size, r.requested_time,
                                  "NoSlots", << >>, r.started_at, bookedLog)]
                /\ UNCHANGED << CURRENT_BOOKINGS, BOOKINGS_LOCK, holidayCache, pc,
                                frame, bookedLog >>
           ELSE Enter(t, "book", r.requested_date, r.dog_size,
                      RunnerSlot(r.requested_time, r.value.available_slots))

\* Another caller commits directly.
OtherBook(t) ==
    /\ ret[t].op # "query"
    /\ CallBook(t)

NextRunner ==
    \/ \E t \in DOMAIN pc : RunnerRequest(t)
    \/ \E t \in DOMAIN pc : RunnerBook(t)
    \/ \E t \in DOMAIN pc : OtherBook(t)
    \/ \E t \in DOMAIN pc : BookChecks(t)
    \/ \E t \in DOMAIN pc : BookAcquire(t)
    \/ \E t \in DOMAIN pc : BookRead(t)
    \/ \E t \in DOMAIN pc : BookReserve(t)
    \/ \E t \in DOMAIN pc : QueryChecks(t)
    \/ \E t \in DOMAIN pc : QuerySlot(t)

SpecRunner == Init /\ [][NextRunner]_vars


(***************************************************************************)

(* Vocabulary of the properties.                                           *)
(***************************************************************************)
\* The (day key, slot) keys a ledger holds.
LedgerKeys(bookings) ==
    UNION { { << d, h >> : h \in DOMAIN bookings[d] } : d \in DOMAIN bookings }

\* Every key has the same units used in both ledgers (0 where a key is missing).
SameUnits(b1, b2) ==
    \A k \in LedgerKeys(b1) \cup LedgerKeys(b2) :
        UnitsUsed(b1, k[1], k[2]) = UnitsUsed(b2, k[1], k[2])

\* The capacity cost of a dog size, as the specification gives it.
UnitCost(dog_size) == IF dog_size = "large" THEN 2 ELSE 1

BookPcs == { "b_checks", "b_acquire", "b_read", "b_reserve" }

CheckPcs == { "b_checks", "q_checks" }

\* In this step thread t's commit returns or raises.
BookEnds(t) == ret'[t] # ret[t] /\ ret'[t].op = "book"

\* In this step thread t takes a step of a commit.
BookSteps(t) ==
    /\ pc'[t] # pc[t] \/ ret'[t] # ret[t] \/ frame'[t] # frame[t]
    /\ pc[t] \in BookPcs \/ pc'[t] \in BookPcs \/ BookEnds(t)

\* In this step thread t passes the capacity test of its commit, one way or the other.
ReserveStep(t) == pc[t] = "b_reserve" /\ pc'[t] = "idle"

(***************************************************************************)
(* C1. Capacity invariant: in every reachable state, whatever calls of     *)
(* book_grooming_appointment and get_available_slots ran and however they  *)
(* interleaved, every (operating date, slot) key of the ledger holds       *)
(* between 0 and 2 units.                                                  *)
(***************************************************************************)
C1_CapacityInvariant ==
    \A k \in LedgerKeys(CURRENT_BOOKINGS) :
        /\ 0 <= UnitsUsed(CURRENT_BOOKINGS, k[1], k[2])
        /\ UnitsUsed(CURRENT_BOOKINGS, k[1], k[2]) <= 2

\* A commit filled a slot to its capacity and a later commit for it was refused.
C1_Witness ==
    \E t \in DOMAIN ret :
        /\ ret[t].op = "book"
        /\ ret[t].outcome = "SlotFull"
        /\ CommitCount(bookedLog) >= 1
        /\ \E k \in DOMAIN bookedLog :
              /\ k.time = ret[t].requested_time
              /\ UnitsUsed(CURRENT_BOOKINGS, k.day_key, k.time) = 2

(***************************************************************************)
(* C2. Concurrency safety: when N > 2 callers commit a one-unit booking    *)
(* for the same open date and the same slot with no units used, then once  *)
(* all have finished exactly 2 commits succeeded and exactly N - 2 failed  *)
(* with SlotFull, in every interleaving.                                   *)
(***************************************************************************)
RaceDone == \A t \in DOMAIN pc : pc[t] = "idle"

C2_TwoSucceed ==
    RaceDone =>
        /\ Cardinality({ t \in DOMAIN ret : ret[t].outcome = "ok" }) = 2
        /\ Cardinality({ t \in DOMAIN ret : ret[t].outcome = "SlotFull" })
               = Cardinality(DOMAIN ret) - 2

\* More than two callers have all finished, and one of them was refused.
C2_Witness ==
    /\ RaceDone
    /\ Cardinality(DOMAIN ret) > 2
    /\ \E t \in DOMAIN ret : ret[t].outcome = "SlotFull"
    /\ \E t \in DOMAIN ret : ret[t].outcome = "ok" /\ ret[t].dog_size = "small"
    /\ \E t \in DOMAIN ret : ret[t].outcome = "ok" /\ ret[t].dog_size = "medium"

(***************************************************************************)
(* C3. Reservation step: a commit that reaches the capacity test (open     *)
(* date, valid slot) succeeds if and only if unitsUsed of its key plus the *)
(* units it needs is at most 2 at that moment; on success unitsUsed of the *)
(* key grows by exactly the units needed (1 for small and medium, 2 for    *)
(* large) and every other key keeps its value.                             *)
(***************************************************************************)
C3_ReservationStep ==
    [][ \A t \in DOMAIN pc :
          ReserveStep(t) =>
            LET f      == frame[t]
                day    == IsoFormat(f.operating_day)
                before == UnitsUsed(CURRENT_BOOKINGS, day, f.requested_time)
                cost   == UnitCost(f.dog_size)
            IN  /\ f.is_open /\ InSeq(f.requested_time, SLOT_TIMES)
                /\ (ret'[t].outcome = "ok") <=> (before + cost <= 2)
                /\ ret'[t].outcome = "ok" =>
                      /\ UnitsUsed(CURRENT_BOOKINGS', day, f.requested_time) = before + cost
                      /\ \A k \in LedgerKeys(CURRENT_BOOKINGS) \cup LedgerKeys(CURRENT_BOOKINGS') :
                            k # << day, f.requested_time >> =>
                               UnitsUsed(CURRENT_BOOKINGS', k[1], k[2])
                                  = UnitsUsed(CURRENT_BOOKINGS, k[1], k[2])
      ]_vars

\* A large dog was booked into a free slot (2 units at once) while the seeded
\* entries kept their values.
C3_Witness ==
    \E t \in DOMAIN ret :
        /\ ret[t].op = "book" /\ ret[t].outcome = "ok" /\ ret[t].dog_size = "large"
        /\ UnitsUsed(CURRENT_BOOKINGS, ret[t].value.date, ret[t].value.time) = 2
        /\ UnitsUsed(CURRENT_BOOKINGS, << 2024, 7, 17 >>, "10:30") = 1
        /\ ret[t].value.time # "10:30"

(***************************************************************************)
(* C4. A failed commit leaves the ledger unchanged: no step of a commit    *)
(* other than the one in which it succeeds changes unitsUsed of any key,   *)
(* so a commit that fails (closed day, invalid time, slot full, date that  *)
(* does not parse) leaves every key as it was, also when it is the first   *)
(* call to touch its date.                                                 *)
(***************************************************************************)
C4_FailedCommitNoChange ==
    [][ \A t \in DOMAIN pc :
          (BookSteps(t) /\ ~(BookEnds(t) /\ ret'[t].outcome = "ok"))
             => SameUnits(CURRENT_BOOKINGS, CURRENT_BOOKINGS')
      ]_vars

\* One commit was refused for a full slot and one for an invalid time, the
\* latter on a date whose ledger entry no call had created, and every key still
\* has its seeded value.
C4_Witness ==
    /\ bookedLog = << >>
    /\ SameUnits(CURRENT_BOOKINGS, SeedBookings)
    /\ \E u \in DOMAIN ret : ret[u].op = "book" /\ ret[u].outcome = "SlotFull"
    /\ \E u \in DOMAIN ret :
          /\ ret[u].op = "book" /\ ret[u].outcome = "InvalidTime"
          /\ ret[u].requested_date = << 2024, 5, 27 >>
          /\ << 2024, 5, 30 >> \notin DOMAIN CURRENT_BOOKINGS

(***************************************************************************)
(* C5. The outcome of a commit is decided by ordered checks: ClosedDay     *)
(* whenever the resolved date is not open (also when the time is invalid); *)
(* InvalidTime whenever the day is open and the time is not one of the     *)
(* fixed slots (also when capacity is free); SlotFull only when the day is *)
(* open, the time is a slot and unitsUsed plus the units needed exceeds 2; *)
(* success in every remaining case.                                        *)
(***************************************************************************)
ExpectedOutcome(bookings, cache, requested_date, dog_size, requested_time) ==
    LET r == resolve_operating_day(cache, parse_date(requested_date))
    IN  IF ~r.is_open THEN "ClosedDay"
        ELSE IF requested_time \notin
                  { "08:30", "09:00", "09:30", "10:00", "10:30",
                    "11:00", "11:30", "12:00", "12:30", "13:00" } THEN "InvalidTime"
        ELSE IF UnitsUsed(bookings, IsoFormat(r.operating_day), requested_time)
                  + UnitCost(dog_size) > 2 THEN "SlotFull"
        ELSE "ok"

C5_OrderedChecks ==
    [][ \A t \in DOMAIN pc :
          (BookEnds(t) /\ IsoParses(ret'[t].requested_date)) =>
              ret'[t].outcome =
                  ExpectedOutcome(CURRENT_BOOKINGS, holidayCache, ret'[t].requested_date,
                                  ret'[t].dog_size, ret'[t].requested_time)
      ]_vars

\* A commit for a closed day with an invalid time failed with ClosedDay, and a
\* commit for "09:15" on an open day whose ledger is empty failed with InvalidTime.
C5_Witness ==
    /\ \E t \in DOMAIN ret :
          /\ ret[t].op = "book" /\ ret[t].outcome = "ClosedDay"
          /\ ret[t].requested_time = "09:15"
    /\ \E t \in DOMAIN ret :
          /\ ret[t].op = "book" /\ ret[t].outcome = "InvalidTime"
          /\ ret[t].requested_time = "09:15"
          /\ ret[t].requested_date = << 2024, 5, 27 >>
          /\ << 2024, 5, 30 >> \notin DOMAIN CURRENT_BOOKINGS


(***************************************************************************)
(* C6. Booking round trip. As stated: if get_available_slots returned slot *)
(* s and the same caller then commits for the same requested date, slot s  *)
(* and dog size, and no other commit runs between the two calls, then the  *)
(* commit succeeds and unitsUsed of the key grows by the unit cost.        *)
(* "No other commit between the two calls" is read in its widest sense: no *)
(* booking was made since the query returned, and no other caller is       *)
(* inside book_grooming_appointment when the commit ends.                  *)
(***************************************************************************)
RoundTripHolds(t) ==
    LET f      == frame[t]
        day    == IsoFormat(f.operating_day)
        before == UnitsUsed(CURRENT_BOOKINGS, day, f.requested_time)
    IN  /\ ret'[t].outcome = "ok"
        /\ UnitsUsed(CURRENT_BOOKINGS', day, f.requested_time)
              = before + UnitCost(f.dog_size)

C6_RoundTripAsStated ==
    [][ \A t \in DOMAIN pc :
          ( /\ pc[t] \in BookPcs
            /\ BookEnds(t)
            /\ frame[t].after_query.is
            /\ CommitCount(bookedLog) = frame[t].after_query.returned_at
            /\ \A o \in DOMAIN pc \ {t} : pc[o] \notin BookPcs )
          => RoundTripHolds(t)
      ]_vars

(***************************************************************************)
(* C6, amended. The round trip holds when no other commit succeeds from    *)
(* the start of the availability query until the commit's capacity test:   *)
(* the query reads the slots one by one, releasing the lock in between, so *)
(* a commit that runs while the query is still scanning can fill a slot    *)
(* the query has already listed.                                           *)
(***************************************************************************)
C6_RoundTrip ==
    [][ \A t \in DOMAIN pc :
          ( /\ pc[t] \in BookPcs
            /\ BookEnds(t)
            /\ frame[t].after_query.is
            /\ CommitCount(bookedLog) = frame[t].after_query.started_at )
          => RoundTripHolds(t)
      ]_vars

\* A caller booked a slot its availability response listed, on a key that held
\* a unit before, while another caller's commit had succeeded before the query.
C6_Witness ==
    \E t \in DOMAIN ret :
        /\ ret[t].op = "book" /\ ret[t].listed /\ ret[t].outcome = "ok"
        /\ ret[t].started_at >= 1
        /\ UnitsUsed(CURRENT_BOOKINGS, ret[t].value.date, ret[t].value.time) = 2
        /\ ret[t].dog_size # "large"

(***************************************************************************)
(* C7. Shutdown example: for every year (so for every weekday December 25  *)
(* can fall on) a request for December 25 resolves to isOpen = false and   *)
(* its notes include a shutdown note.                                      *)
(***************************************************************************)
HasNote(notes, kind) == \E i \in 1..Len(notes) : notes[i].kind = kind

C7_Dec25Closed ==
    \A t \in DOMAIN pc :
        ( /\ pc[t] \in CheckPcs
          /\ frame[t].requested_date[2] = 12
          /\ frame[t].requested_date[3] = 25 )
        => /\ ~frame[t].is_open
           /\ HasNote(frame[t].notes, "christmas_shutdown")

(***************************************************************************)
(* C8. Post-Christmas shutdown: for every year, the Monday, Tuesday and    *)
(* Wednesday that start at the first Monday strictly after December 26     *)
(* resolve to isOpen = false, also when they fall in January of the next   *)
(* year, and no commit requested for one of them succeeds.                 *)
(***************************************************************************)
FirstMondayAfterDec26(year) == WalkForward(AddDays(MkDate(year, 12, 26), 1), 0)

PostChristmasWindow(year) == { AddDays(FirstMondayAfterDec26(year), i) : i \in 0..2 }

InPostChristmasWindow(day) ==
    day \in PostChristmasWindow(day.year) \cup PostChristmasWindow(day.year - 1)

C8_PostChristmasClosed ==
    /\ \A t \in DOMAIN pc :
          ( /\ pc[t] \in CheckPcs
            /\ InPostChristmasWindow(parse_date(frame[t].requested_date)) )
          => ~frame[t].is_open
    /\ \A t \in DOMAIN ret :
          (ret[t].op = "book" /\ ret[t].outcome = "ok")
          => ~InPostChristmasWindow(parse_date(ret[t].requested_date))

(***************************************************************************)
(* C9. Bank-holiday shift: a requested date that falls on Monday, Tuesday  *)
(* or Wednesday and is in the holiday set of its year (in particular the   *)
(* last Monday of May and the last Monday of August) resolves to           *)
(* requestedDate + (3 - weekday), the Thursday of the same week, with a    *)
(* note recording the shift; every other requested date resolves to itself *)
(* and gets no shift note.                                                 *)
(***************************************************************************)
\* May and August have 31 days: a Monday is the last one when the next is past the 31st.
IsLastMondayOf(day, month) ==
    day.month = month /\ Weekday(day) = 0 /\ day.day + 7 > 31

C9_HolidayShift ==
    \A t \in DOMAIN pc :
        pc[t] \in CheckPcs =>
            LET f       == frame[t]
                d       == parse_date(f.requested_date)
                op      == f.operating_day
                shifted == Weekday(d) \in {0, 1, 2} /\ d \in ComputeBankHolidays(d.year)
            IN  /\ (IsLastMondayOf(d, 5) \/ IsLastMondayOf(d, 8)) => shifted
                /\ shifted =>
                      /\ ToOrdinal(op) = ToOrdinal(d) + (3 - Weekday(d))
                      /\ Weekday(op) = 3
                      /\ \E i \in 1..Len(f.notes) :
                            /\ f.notes[i].kind = "bank_holiday_moved"
                            /\ f.notes[i].day = IsoFormat(d)
                            /\ f.notes[i].arg = IsoFormat(op)
                /\ ~shifted =>
                      /\ op = d
                      /\ ~HasNote(f.notes, "bank_holiday_moved")

\* A request for the last Monday of May has been resolved to the Thursday of
\* that week, three days later in the same month, with the note of the shift.
C9_Witness ==
    \E t \in DOMAIN pc :
        /\ pc[t] \in CheckPcs
        /\ IsLastMondayOf(parse_date(frame[t].requested_date), 5)
        /\ Weekday(frame[t].operating_day) = 3
        /\ frame[t].operating_day.month = 5
        /\ frame[t].operating_day.day = frame[t].requested_date[3] + 3
        /\ HasNote(frame[t].notes, "bank_holiday_moved")

(***************************************************************************)
(* C10. isOpen is true only in two cases: (1) the operating date is a      *)
(* Thursday reached by a holiday shift and is not inside the shutdown      *)
(* window (December 24-26 and the Monday-Wednesday after December 26), or  *)
(* (2) the operating date is the requested date, a Monday, Tuesday or      *)
(* Wednesday, not inside the shutdown window and not a holiday. A request  *)
(* for a Thursday, Friday, Saturday or Sunday always resolves closed.      *)
(***************************************************************************)
InShutdownWindow(day) ==
    \/ day.month = 12 /\ day.day \in {24, 25, 26}
    \/ InPostChristmasWindow(day)

C10_OpenOnlyTwoCases ==
    \A t \in DOMAIN pc :
        pc[t] \in CheckPcs =>
            LET f  == frame[t]
                d  == parse_date(f.requested_date)
                op == f.operating_day
            IN  /\ f.is_open =>
                      \/ /\ Weekday(op) = 3
                         /\ op # d
                         /\ HasNote(f.notes, "bank_holiday_moved")
                         /\ ~InShutdownWindow(op)
                      \/ /\ op = d
                         /\ Weekday(d) \in {0, 1, 2}
                         /\ ~InShutdownWindow(d)
                         /\ d \notin ComputeBankHolidays(d.year)
                /\ Weekday(d) \in {3, 4, 5, 6} => ~f.is_open

(***************************************************************************)
(* C11. December 24, 25 and 26 are always closed: whenever the resolved    *)
(* operating date is December 24, 25 or 26, isOpen is false, also when the *)
(* date was reached by a holiday shift; so no commit ever adds units to a  *)
(* key on those dates: such keys hold 0 units and no booking is recorded   *)
(* for them.                                                               *)
(***************************************************************************)
IsFixedShutdownDay(day) == day.month = 12 /\ day.day \in {24, 25, 26}

C11_Dec24To26Closed ==
    /\ \A t \in DOMAIN pc :
          (pc[t] # "idle" /\ IsFixedShutdownDay(frame[t].operating_day))
          => ~frame[t].is_open
    /\ \A k \in LedgerKeys(CURRENT_BOOKINGS) :
          k[1][2] = 12 /\ k[1][3] \in {24, 25, 26}
          => UnitsUsed(CURRENT_BOOKINGS, k[1], k[2]) = 0
    /\ \A b \in DOMAIN bookedLog :
          ~(b.day_key[2] = 12 /\ b.day_key[3] \in {24, 25, 26})

\* A commit requested for a December 25 that is a Wednesday was moved to
\* Thursday December 26 and has been refused as a closed day.
C11_Witness ==
    \E t \in DOMAIN ret :
        /\ ret[t].op = "book"
        /\ ret[t].outcome = "ClosedDay"
        /\ ret[t].requested_date[2] = 12 /\ ret[t].requested_date[3] = 25
        /\ ret[t].value[2] = 12 /\ ret[t].value[3] = 26
        /\ SameUnits(CURRENT_BOOKINGS, SeedBookings)

(***************************************************************************)
(* C12. Availability result: when the resolved day is closed,              *)
(* get_available_slots returns an empty list of slots and at least one     *)
(* note; when the day is open and no commit is made while the query runs,  *)
(* the list holds exactly the slots of the fixed sequence whose units used *)
(* plus the units needed are at most 2, each once, in the order of the     *)
(* fixed sequence.                                                         *)
(***************************************************************************)
QueryPcs == { "q_checks", "q_slots" }

\* In this step thread t's availability query returns its response.
QueryReturns(t) ==
    /\ pc[t] \in QueryPcs
    /\ ret'[t] # ret[t]
    /\ ret'[t].op = "query"
    /\ ret'[t].outcome = "ok"

\* The slots of the fixed sequence with room for the dog, in the sequence's order.
SlotsWithRoom(bookings, day_key, dog_size) ==
    LET HasRoom(s) == UnitsUsed(bookings, day_key, s) + UnitCost(dog_size) <= 2
    IN  SelectSeq(SLOT_TIMES, HasRoom)

C12_AvailabilityResult ==
    [][ \A t \in DOMAIN pc :
          QueryReturns(t) =>
            LET f == frame[t]
                v == ret'[t].value
            IN  /\ ~f.is_open =>
                      /\ v.available_slots = << >>
                      /\ Len(v.notes) >= 1
                /\ (f.is_open /\ CommitCount(bookedLog) = f.started_at) =>
                      v.available_slots =
                          SlotsWithRoom(CURRENT_BOOKINGS, IsoFormat(f.operating_day),
                                        f.dog_size)
      ]_vars

\* One caller holds the response for a large dog on 2024-07-17, where 10:30
\* has one unit used: the nine other slots, in order; another holds the
\* response for a closed day: no slots, and a note.
C12_Witness ==
    \E t, o \in DOMAIN ret :
        /\ ret[t].op = "query" /\ ret[t].outcome = "ok"
        /\ ret[t].requested_date = << 2024, 7, 17 >>
        /\ ret[t].dog_size = "large"
        /\ ret[t].value.available_slots =
              SelectSeq(SLOT_TIMES, LAMBDA s : s # "10:30")
        /\ ret[o].op = "query" /\ ret[o].outcome = "ok"
        /\ ret[o].requested_date = << 2024, 7, 11 >>
        /\ ret[o].value.available_slots = << >>
        /\ Len(ret[o].value.notes) = 1

(***************************************************************************)
(* C13. Availability Query never ends in an error: for every input, a      *)
(* closed day, a day with every slot full and a requested date that is no  *)
(* calendar date included, get_available_slots returns a normal response   *)
(* and raises none of ClosedDay, InvalidTime, SlotFull, MalformedDate.     *)
(***************************************************************************)
C13_QueryNeverErrors ==
    \A t \in DOMAIN ret :
        ret[t].op = "query" => ret[t].outcome = "ok"

(***************************************************************************)
(* C14. Availability Query performs no writes: every step of a             *)
(* get_available_slots call, from the call to the return, leaves the       *)
(* ledger as it is, so the units used of every key are unchanged; and the  *)
(* units used of a key change only in the step in which a commit succeeds. *)
(***************************************************************************)
\* In this step thread t takes a step of an availability query.
QuerySteps(t) ==
    \/ pc[t] \in QueryPcs /\ (pc'[t] # pc[t] \/ frame'[t] # frame[t])
    \/ pc[t] = "idle" /\ pc'[t] \in QueryPcs
    \/ pc[t] = "idle" /\ ret'[t] # ret[t] /\ ret'[t].op = "query"

C14_QueryNoWrites ==
    [][ /\ \A t \in DOMAIN pc :
              QuerySteps(t) =>
                  /\ CURRENT_BOOKINGS' = CURRENT_BOOKINGS
                  /\ SameUnits(CURRENT_BOOKINGS, CURRENT_BOOKINGS')
        /\ ~SameUnits(CURRENT_BOOKINGS, CURRENT_BOOKINGS') =>
              \E t \in DOMAIN pc :
                  /\ ReserveStep(t)
                  /\ ret'[t].op = "book"
                  /\ ret'[t].outcome = "ok"
      ]_vars

\* A query of an open day has returned with the ledger as it was seeded,
\* after it looked at a key that holds units and at keys the ledger lacks.
C14_Witness ==
    \E t \in DOMAIN ret :
        /\ ret[t].op = "query" /\ ret[t].outcome = "ok"
        /\ ret[t].requested_date = << 2024, 5, 27 >>
        /\ Len(ret[t].value.available_slots) = Len(SLOT_TIMES)
        /\ CURRENT_BOOKINGS = SeedBookings
        /\ \E o \in DOMAIN ret :
              /\ ret[o].op = "query" /\ ret[o].outcome = "ok"
              /\ ret[o].requested_date = << 2024, 7, 10 >>
              /\ Len(ret[o].value.available_slots) = Len(SLOT_TIMES) - 1

(***************************************************************************)
(* C15. A booking record is returned exactly when capacity was reserved:   *)
(* a commit returns a record if and only if it added its units to the      *)
(* ledger; the record has status "Booked" and its date and time are the    *)
(* key that grew, the resolved operating date (the Thursday for a shifted  *)
(* holiday request) and the requested slot; a failing commit raises one of *)
(* the error kinds, returns no record and adds nothing. No step of a       *)
(* commit but the one that passes the capacity test changes any units.     *)
(***************************************************************************)
ErrorKinds == { "ClosedDay", "InvalidTime", "SlotFull", "MalformedDate" }

C15_RecordIffReserved ==
    [][ \A t \in DOMAIN pc :
          /\ (BookSteps(t) /\ ~ReserveStep(t)) =>
                SameUnits(CURRENT_BOOKINGS, CURRENT_BOOKINGS')
          /\ BookEnds(t) =>
                LET r == ret'[t]
                IN  /\ r.outcome = "ok" <=> ~SameUnits(CURRENT_BOOKINGS, CURRENT_BOOKINGS')
                    /\ r.outcome # "ok" => r.outcome \in ErrorKinds
                    /\ r.outcome = "ok" =>
                          /\ r.value.status = "Booked"
                          /\ r.value.date = IsoFormat(frame[t].operating_day)
                          /\ r.value.time = r.requested_time
                          /\ UnitsUsed(CURRENT_BOOKINGS', r.value.date, r.value.time)
                                = UnitsUsed(CURRENT_BOOKINGS, r.value.date, r.value.time)
                                  + UnitCost(r.dog_size)
                          /\ \A k \in LedgerKeys(CURRENT_BOOKINGS') :
                                k # << r.value.date, r.value.time >> =>
                                    UnitsUsed(CURRENT_BOOKINGS', k[1], k[2])
                                      = UnitsUsed(CURRENT_BOOKINGS, k[1], k[2])
      ]_vars

\* A commit requested for the bank holiday Monday 2024-05-27 returned a record
\* dated Thursday 2024-05-30, the key that holds its units; another caller's
\* commit for the same slot was refused and left that key as it was.
C15_Witness ==
    \E t, o \in DOMAIN ret :
        /\ ret[t].op = "book" /\ ret[t].outcome = "ok"
        /\ ret[t].requested_date = << 2024, 5, 27 >>
        /\ ret[t].value.date = << 2024, 5, 30 >>
        /\ ret[t].dog_size = "large"
        /\ UnitsUsed(CURRENT_BOOKINGS, << 2024, 5, 30 >>, ret[t].value.time) = 2
        /\ UnitsUsed(CURRENT_BOOKINGS, << 2024, 5, 27 >>, ret[t].value.time) = 0
        /\ ret[o].op = "book" /\ ret[o].outcome = "SlotFull"
        /\ ret[o].requested_date = << 2024, 5, 27 >>
        /\ ret[o].requested_time = ret[t].value.time

(***************************************************************************)
(* C16. Each slot supports two small/medium dogs or one large dog: on a    *)
(* key that starts at 0 units, however the commit attempts interleave, the *)
(* bookings that succeeded are at most two small/medium ones or exactly    *)
(* one large one; a large booking succeeds only when no booking on the key *)
(* has succeeded, and no booking succeeds after a large one.               *)
(***************************************************************************)
LargeBooked(log, day_key, time) == Logged(log, LogKey(day_key, time, "large"))

SmallMediumBooked(log, day_key, time) ==
    Logged(log, LogKey(day_key, time, "small")) + Logged(log, LogKey(day_key, time, "medium"))

StartsEmpty(day_key, time) == UnitsUsed(SeedBookings, day_key, time) = 0

C16_TwoSmallOrOneLarge ==
    /\ [] \A b \in DOMAIN bookedLog :
            StartsEmpty(b.day_key, b.time) =>
                LET large == LargeBooked(bookedLog, b.day_key, b.time)
                    small == SmallMediumBooked(bookedLog, b.day_key, b.time)
                IN  \/ large = 0 /\ small <= 2
                    \/ large = 1 /\ small = 0
    /\ [][ \A t \in DOMAIN pc :
             ( /\ ReserveStep(t)
               /\ ret'[t].outcome = "ok"
               /\ StartsEmpty(ret'[t].value.date, ret'[t].value.time) )
             => LET r     == ret'[t]
                    large == LargeBooked(bookedLog, r.value.date, r.value.time)
                    small == SmallMediumBooked(bookedLog, r.value.date, r.value.time)
                IN  /\ large = 0
                    /\ r.dog_size = "large" => small = 0
                    /\ r.dog_size # "large" => small <= 1
         ]_vars

\* All callers have finished: two one-unit dogs are booked on the key, which
\* started empty, and the caller with the large dog was refused.
C16_Witness ==
    /\ RaceDone
    /\ \E t \in DOMAIN ret :
          /\ ret[t].outcome = "SlotFull"
          /\ ret[t].dog_size = "large"
          /\ \E b \in DOMAIN bookedLog :
                /\ b.time = ret[t].requested_time
                /\ StartsEmpty(b.day_key, b.time)
                /\ SmallMediumBooked(bookedLog, b.day_key, b.time) = 2
                /\ LargeBooked(bookedLog, b.day_key, b.time) = 0
                /\ UnitsUsed(CURRENT_BOOKINGS, b.day_key, b.time) = 2

(***************************************************************************)
(* C17. The ledger never decrements: in every step of every execution,     *)
(* every key of the ledger stays in it and its units used do not go down,  *)
(* so the units of a key are at least what they were in every earlier      *)
(* state; in particular every seeded key holds at least its seeded units.  *)
(***************************************************************************)
C17_NeverDecrements ==
    /\ [][ /\ DOMAIN CURRENT_BOOKINGS \subseteq DOMAIN CURRENT_BOOKINGS'
           /\ \A k \in LedgerKeys(CURRENT_BOOKINGS) :
                 /\ k \in LedgerKeys(CURRENT_BOOKINGS')
                 /\ UnitsUsed(CURRENT_BOOKINGS', k[1], k[2])
                       >= UnitsUsed(CURRENT_BOOKINGS, k[1], k[2])
         ]_vars
    /\ [] \A k \in LedgerKeys(SeedBookings) :
             /\ k \in LedgerKeys(CURRENT_BOOKINGS)
             /\ UnitsUsed(CURRENT_BOOKINGS, k[1], k[2])
                   >= UnitsUsed(SeedBookings, k[1], k[2])

\* Commits have run on the seeded days: one seeded key has grown, and the
\* full seeded key is as it was after a commit on its day was refused.
C17_Witness ==
    /\ UnitsUsed(CURRENT_BOOKINGS, << 2024, 7, 17 >>, "10:30") = 2
    /\ UnitsUsed(CURRENT_BOOKINGS, << 2024, 7, 10 >>, "09:00") = 2
    /\ \E t \in DOMAIN ret :
          /\ ret[t].op = "book" /\ ret[t].outcome = "SlotFull"
          /\ ret[t].requested_date = << 2024, 7, 10 >>

(***************************************************************************)
(* C18. No operation blocks indefinitely and failures are not fatal: under *)
(* fair scheduling every started query or commit eventually returns or     *)
(* raises; the lock is held only between the acquire and the end of the    *)
(* check-and-increment and is released by the step that ends it, on the    *)
(* SlotFull path as on the success path; and after a commit was refused as *)
(* SlotFull, a commit that another caller has started for a slot with      *)
(* enough capacity, with no other call running, returns a record.          *)
(***************************************************************************)
LockHeldPcs == { "b_read", "b_reserve" }

\* Thread t is about to take the lock for a slot that has room for its dog,
\* the other callers are done, and one of them was refused as SlotFull.
AloneWithRoomAfterRefusal(t) ==
    /\ pc[t] = "b_acquire"
    /\ calls = MaxCalls
    /\ \A o \in Threads \ {t} : pc[o] = "idle" /\ ret[o].op # "query"
    /\ \E o \in Threads \ {t} : ret[o].outcome = "SlotFull"
    /\ UnitsUsed(CURRENT_BOOKINGS, IsoFormat(frame[t].operating_day),
                 frame[t].requested_time) + UnitCost(frame[t].dog_size) <= 2

C18_NoBlocking ==
    /\ \A t \in Threads : (pc[t] # "idle") ~> (pc[t] = "idle" /\ ret[t].op # "none")
    /\ [] \A t \in Threads :
             /\ BOOKINGS_LOCK.owner = t => pc[t] \in LockHeldPcs
             /\ pc[t] \in LockHeldPcs => BOOKINGS_LOCK = [owner |-> t, count |-> 1]
    /\ [][ \A t \in Threads : ReserveStep(t) => BOOKINGS_LOCK' = UnlockedLock ]_vars
    /\ \A t \in Threads :
          AloneWithRoomAfterRefusal(t) ~> (pc[t] = "idle" /\ ret[t].outcome = "ok")

\* One caller's commit was refused as SlotFull and the lock is free again;
\* another caller's commit, started after it, has returned a record.
C18_Witness ==
    \E t, o \in DOMAIN ret :
        /\ ret[o].op = "book" /\ ret[o].outcome = "SlotFull"
        /\ ret[t].op = "book" /\ ret[t].outcome = "ok"
        /\ ret[t].started_at = 0 /\ ret[t].returned_at = 1
        /\ calls = MaxCalls
        /\ BOOKINGS_LOCK = UnlockedLock
        /\ \A x \in DOMAIN pc : pc[x] = "idle"

(***************************************************************************)
(* C19. Determinism of resolution: two calls of _resolve_operating_day     *)
(* with the same requested date return the same (operating date, notes,    *)
(* isOpen), whatever the ledger holds, whether the cache entry of the year *)
(* was there or not, and when callers race to fill it: every result is the *)
(* one a call with an empty cache gives, every cache entry is the set the  *)
(* holiday computation gives, and a call that ends agrees with every       *)
(* result returned before for the same date, its own caller's included.    *)
(***************************************************************************)
ResolveEnds(t) == pc[t] = "r_finish" /\ pc'[t] = "idle"

C19_ResolveDeterministic ==
    /\ [] \A t \in Threads :
             ret[t].op = "resolve" =>
                 ret[t].value = resolve_operating_day(<< >>, parse_date(ret[t].requested_date))
    /\ [] \A y \in DOMAIN holidayCache : holidayCache[y] = ComputeBankHolidays(y)
    /\ [][ \A t, o \in Threads :
             ( /\ ResolveEnds(t)
               /\ ret[o].op = "resolve"
               /\ ret[o].requested_date = ret'[t].requested_date )
             => ret'[t].value = ret[o].value
         ]_vars

\* The callers raced to fill the cache entry of 2024: one has returned its
\* result for Wednesday 2024-12-25, the closed Thursday, and its entry is in
\* the cache; the other, which missed the cache before that, has run the
\* holiday computation for the same date and is about to store over the entry.
C19_Witness ==
    \E t, o \in Threads :
        /\ pc[t] = "r_store"
        /\ frame[t].requested_date = << 2024, 12, 25 >>
        /\ 2024 \in DOMAIN holidayCache
        /\ pc[o] = "idle"
        /\ ret[o].op = "resolve"
        /\ ret[o].requested_date = << 2024, 12, 25 >>
        /\ ret[o].value.operating_day = MkDate(2024, 12, 26)
        /\ ~ret[o].value.is_open

(***************************************************************************)
(* C20. No lost updates: in every reachable state, however the commits     *)
(* interleave, the units used of every key equal the key's seeded units    *)
(* plus the unit costs of all the commits that have returned a record for  *)
(* that key; and two commits are never both between reading the units of   *)
(* a slot and storing them.                                                *)
(***************************************************************************)
\* The unit costs of the bookings the history records for a key.
BookedUnits(log, day_key, time) ==
    SmallMediumBooked(log, day_key, time) + 2 * LargeBooked(log, day_key, time)

C20_NoLostUpdates ==
    /\ \A k \in LedgerKeys(CURRENT_BOOKINGS) \cup LedgerKeys(SeedBookings)
                \cup { << b.day_key, b.time >> : b \in DOMAIN bookedLog } :
          UnitsUsed(CURRENT_BOOKINGS, k[1], k[2])
              = UnitsUsed(SeedBookings, k[1], k[2]) + BookedUnits(bookedLog, k[1], k[2])
    /\ \A t, o \in DOMAIN pc :
          (pc[t] \in LockHeldPcs /\ pc[o] \in LockHeldPcs) => t = o

\* Two callers ran their commits for one key at the same time (each started
\* before the other returned); both returned a record and the key holds both.
C20_Witness ==
    \E t, o \in DOMAIN ret :
        /\ t # o
        /\ ret[t].op = "book" /\ ret[t].outcome = "ok"
        /\ ret[o].op = "book" /\ ret[o].outcome = "ok"
        /\ ret[t].value.date = ret[o].value.date
        /\ ret[t].value.time = ret[o].value.time
        /\ ret[t].started_at = 0 /\ ret[o].started_at = 0
        /\ UnitsUsed(CURRENT_BOOKINGS, ret[t].value.date, ret[t].value.time) = 2
        /\ UnitsUsed(SeedBookings, ret[t].value.date, ret[t].value.time) = 0

(***************************************************************************)
(* C21. Capacity is only ever reserved on bookable keys: in every state,   *)
(* every key whose units differ from its seeded units, and every day the   *)
(* ledger has gained, has a slot of the fixed sequence (for a key) and a   *)
(* date that is the operating date of an open resolution of some requested *)
(* date; a commit refused as ClosedDay or InvalidTime leaves the ledger    *)
(* exactly as it was, so keys of closed dates and of other times keep      *)
(* their seeded value.                                                     *)
(***************************************************************************)
\* Some requested date resolves open to this day: the day itself, or one of
\* the three days before it (a holiday shift moves a request by 1 to 3 days).
IsOpenOperatingDate(day_key) ==
    \E back \in 0..3 :
        LET r == resolve_operating_day(<< >>, AddDays(parse_date(day_key), -back))
        IN  r.is_open /\ IsoFormat(r.operating_day) = day_key

C21_OnlyBookableKeys ==
    /\ [] /\ \A k \in LedgerKeys(CURRENT_BOOKINGS) :
                UnitsUsed(CURRENT_BOOKINGS, k[1], k[2]) # UnitsUsed(SeedBookings, k[1], k[2])
                => InSeq(k[2], SLOT_TIMES) /\ IsOpenOperatingDate(k[1])
          /\ \A d \in DOMAIN CURRENT_BOOKINGS \ DOMAIN SeedBookings :
                IsOpenOperatingDate(d)
    /\ [][ \A t \in DOMAIN pc :
             (BookEnds(t) /\ ret'[t].outcome \in { "ClosedDay", "InvalidTime" })
             => CURRENT_BOOKINGS' = CURRENT_BOOKINGS
         ]_vars

\* A commit requested for a bank holiday was booked on the Thursday of its
\* week: the only key that differs from the seed is on that Thursday, at a
\* slot of the fixed sequence, and the requested day has no entry.
C21_Witness ==
    \E t \in DOMAIN ret :
        /\ ret[t].op = "book" /\ ret[t].outcome = "ok"
        /\ ret[t].value.date # ret[t].requested_date
        /\ Weekday(parse_date(ret[t].value.date)) = 3
        /\ ret[t].requested_date \notin DOMAIN CURRENT_BOOKINGS
        /\ UnitsUsed(CURRENT_BOOKINGS, ret[t].value.date, ret[t].value.time) = 2
        /\ \A k \in LedgerKeys(CURRENT_BOOKINGS) :
              k # << ret[t].value.date, ret[t].value.time >> =>
                  UnitsUsed(CURRENT_BOOKINGS, k[1], k[2]) = UnitsUsed(SeedBookings, k[1], k[2])

(***************************************************************************)
(* C22. Check-then-book workflow of the stub Runner, as stated: the        *)
(* handler queries availability first and then calls the booking tool at   *)
(* most once, with the requested time when the response lists it and with  *)
(* the first listed slot otherwise; when no slot is listed it fails        *)
(* without calling the booking tool and the ledger is unchanged; and when  *)
(* no other caller commits between the query and the booking (no booking   *)
(* was made since the query returned and no other caller is inside the     *)
(* booking tool when the handler's call ends) the booking call does not    *)
(* fail with ClosedDay, InvalidTime or SlotFull.                           *)
(***************************************************************************)
\* In this step the handler of thread t goes on from the availability response.
RunnerGoesOn(t) ==
    /\ pc[t] = "idle"
    /\ ret[t].op = "query"
    /\ ret'[t] # ret[t] \/ pc'[t] # pc[t]

\* What the handler does with the response: the slot it books, or the failure.
RunnerStepRight(t) ==
    LET r         == ret[t]
        listed    == r.value.available_slots
        requested == r.requested_time
    IN  /\ r.outcome = "ok"
        /\ IF listed = << >>
           THEN /\ pc'[t] = "idle"
                /\ ret'[t].op = "runner" /\ ret'[t].outcome = "NoSlots"
                /\ CURRENT_BOOKINGS' = CURRENT_BOOKINGS
           ELSE /\ pc'[t] = "b_checks"
                /\ ret'[t] = NoRet
                /\ frame'[t].requested_date = r.requested_date
                /\ frame'[t].dog_size = r.dog_size
                /\ \E i \in 1..Len(listed) :
                      /\ frame'[t].requested_time = listed[i]
                      /\ listed[i] = requested
                         \/ (i = 1 /\ \A j \in 1..Len(listed) : listed[j] # requested)

\* Each request leads to at most one call of the booking tool: the calls that
\* are running or have returned a record are no more than the requests.
AtMostOneBookEach ==
    CommitCount(bookedLog) + Cardinality({ t \in DOMAIN pc : pc[t] \in BookPcs }) <= calls

\* A call of the booking tool that is not another caller's comes from the
\* handler, after its query.
RunnerBookEnds(t) ==
    /\ pc[t] \in BookPcs
    /\ BookEnds(t)
    /\ frame[t].after_query.is

=============================================================================
